---- MODULE Spec2Model ----
(***************************************************************************)
(* RestEasy: the two window shells of the repository.                      *)
(*                                                                         *)
(*   Shell A  src/resteasy/__main__.py       MyApplication (Gtk, PyGObject)*)
(*   Shell B  src/resteasy/view/dashboard.py Dashboard (PySide6)           *)
(*                                                                         *)
(* Shell A is the script run as a process: module load (lines 25-30), the  *)
(* entry point (lines 45-48) and the toolkit's deliveries of do_activate   *)
(* and of the user's window closes while run() is on the stack.            *)
(* Shell B is one Dashboard object: its constructor, statement by          *)
(* statement, and the events its host's event loop delivers afterwards.    *)
(* The environment (which Gtk typelib versions are installed, whether a    *)
(* display and a session bus are available) is chosen in Init and never    *)
(* changes.                                                                *)
(***************************************************************************)
EXTENDS Integers, Sequences, FiniteSets

\* ------------------------------------------------------------------ bounds

\* How many times the toolkit delivers activate to the one application
\* object (the first delivery by run(), later ones by further launches).
MaxActivations == 2

\* --------------------------------------------------------------- constants

\* gi.require_version("Gtk", "4.0"): the major version asked for.
RequiredGtk == 4

\* The Gtk typelib major versions an installation may carry.
GtkVersions == {3, 4, 5}

APPLICATION_ID == "com.resteasy.RestEasy"
APPLICATION_NAME == "RestEasy"
WINDOW_TITLE_A == "Hello, RestEasy!"
WINDOW_TITLE_B == "RestEasy"
BUTTON_LABEL == "RestEasy (WIP)"

NoVersion == 0

VARIABLES
    \* environment
    installed,      \* Gtk typelib versions installed
    display,        \* a display server can be opened
    busOk,          \* the application can register on the session bus
    \* Shell A
    pcA,            \* position of the __main__ script
    loaded,         \* version of the Gtk namespace loaded in the repository
    required,       \* gi._versions["Gtk"]
    appId,          \* application_id of the MyApplication object
    appName,        \* GLib application name
    windows,        \* the application's windows, in creation order
    activations,    \* deliveries of activate so far
    lastActivate,   \* how the last call of do_activate ended
    exit_status,    \* the value run() returned
    exitCode,       \* the process's exit code
    failure,        \* the first failure of a toolkit step in shell A
    \* Shell B
    pcB,            \* position in Dashboard.__init__
    dash,           \* the Dashboard window
    button,         \* the QPushButton
    bError          \* the exception Dashboard.__init__ raised

envVars == <<installed, display, busOk>>
aVars == <<pcA, loaded, required, appId, appName, windows, activations,
           lastActivate, exit_status, exitCode, failure>>
bVars == <<pcB, dash, button, bError>>
vars == <<installed, display, busOk, pcA, loaded, required, appId, appName,
          windows, activations, lastActivate, exit_status, exitCode, failure,
          pcB, dash, button, bError>>

NoStatus == -1

Max(S) == CHOOSE x \in S : \A y \in S : y <= x

RemoveAt(s, i) == [j \in 1..(Len(s) - 1) |-> IF j < i THEN s[j] ELSE s[j + 1]]

\* ================================================================ Shell A

\* from gi.repository import GLib, Gtk  (line 28), no version required yet:
\* the repository loads the newest installed version of the namespace.
ImportedVersion(inst, req) ==
    IF req # NoVersion THEN req ELSE Max(inst)

\* gi.require_version(namespace, version) (line 30): the error it raises, or
\* "none".  A namespace already loaded with another version is an error, as
\* is a version that is not installed.
RequireVersionError(inst, ld, version) ==
    IF ld # NoVersion /\ ld # version THEN "ValueError"
    ELSE IF version \notin inst THEN "ValueError"
    ELSE "none"

\* An uncaught exception at module level or in the entry point: the
\* interpreter prints the traceback and the process ends with status 1.
Uncaught(err) ==
    /\ pcA' = "exited"
    /\ exitCode' = 1
    /\ failure' = err

\* line 28
ImportGi ==
    /\ pcA = "l28"
    /\ IF installed = {}
       THEN /\ Uncaught("ImportError")
            /\ UNCHANGED loaded
       ELSE /\ loaded' = ImportedVersion(installed, required)
            /\ pcA' = "l30"
            /\ UNCHANGED <<exitCode, failure>>
    /\ UNCHANGED <<required, appId, appName, windows, activations,
                   lastActivate, exit_status>>
    /\ UNCHANGED <<envVars, bVars>>

\* line 30
RequireVersion ==
    /\ pcA = "l30"
    /\ LET err == RequireVersionError(installed, loaded, RequiredGtk) IN
       IF err # "none"
       THEN /\ Uncaught(err)
            /\ UNCHANGED required
       ELSE /\ required' = RequiredGtk
            /\ pcA' = "l46"
            /\ UNCHANGED <<exitCode, failure>>
    /\ UNCHANGED <<loaded, appId, appName, windows, activations,
                   lastActivate, exit_status>>
    /\ UNCHANGED <<envVars, bVars>>

\* MyApplication.__init__ (lines 34-36), called at line 46.
MyApplication__init__ ==
    /\ pcA = "l46"
    /\ appId' = APPLICATION_ID
    /\ appName' = APPLICATION_NAME
    /\ pcA' = "l47"
    /\ UNCHANGED <<loaded, required, windows, activations, lastActivate,
                   exit_status, exitCode, failure>>
    /\ UNCHANGED <<envVars, bVars>>

\* app.run(sys.argv) (line 47) up to the start of the main loop: the
\* application registers (failure: run returns 1) and starts up (no
\* display: the toolkit ends the process with status 1).
RunStartup ==
    /\ pcA = "l47"
    /\ IF ~busOk
       THEN /\ exit_status' = 1
            /\ failure' = "register"
            /\ pcA' = "l48"
            /\ UNCHANGED exitCode
       ELSE IF ~display
       THEN /\ exitCode' = 1
            /\ failure' = "startup"
            /\ pcA' = "exited"
            /\ UNCHANGED exit_status
       ELSE /\ pcA' = "running"
            /\ UNCHANGED <<exit_status, exitCode, failure>>
    /\ UNCHANGED <<loaded, required, appId, appName, windows, activations,
                   lastActivate>>
    /\ UNCHANGED <<envVars, bVars>>

\* Mutant: the window is constructed without application=self.
ApplicationWindow_Unowned(application, title) ==
    [application |-> "none", title |-> title, child |-> "none",
     visible |-> FALSE]

\* Gtk.ApplicationWindow(application=self, title=...) (line 39).  No child
\* is set: lines 40-41 are comments.
ApplicationWindow(application, title) ==
    [application |-> application, title |-> title, child |-> "none",
     visible |-> FALSE]

\* window.present() (line 42)
present(w) == [w EXCEPT !.visible = TRUE]

\* Mutant: lines 40-41 are live code, the window gets a Gtk.Label child.
do_activate_SetChild(ws, outcome) ==
    IF outcome = "construct" THEN ws
    ELSE IF outcome = "present"
    THEN Append(ws, [application |-> "self", title |-> WINDOW_TITLE_A,
                     child |-> "label", visible |-> FALSE])
    ELSE Append(ws, [application |-> "self", title |-> WINDOW_TITLE_A,
                     child |-> "label", visible |-> TRUE])

\* The application's windows after do_activate (lines 38-42) ran with the
\* given outcome: "ok", or an exception raised by line 39 ("construct") or
\* by line 42 ("present").  A window constructed with application=self is
\* in the application's list from its construction on.
do_activate(ws, outcome) ==
    IF outcome = "construct" THEN ws
    ELSE IF outcome = "present"
    THEN Append(ws, ApplicationWindow("self", WINDOW_TITLE_A))
    ELSE Append(ws, present(ApplicationWindow("self", WINDOW_TITLE_A)))

\* The toolkit delivers activate: once from run(), again for every further
\* launch of the application while this instance is running.  do_activate
\* is called from the toolkit's dispatcher: an exception it raises is
\* printed there and not propagated to run().
Activate ==
    /\ pcA = "running"
    /\ activations < MaxActivations
    /\ \E outcome \in {"ok", "construct", "present"} :
         /\ windows' = do_activate(windows, outcome)
         /\ lastActivate' = outcome
         /\ failure' = IF outcome # "ok" /\ failure = "none"
                       THEN "activate" ELSE failure
    /\ activations' = activations + 1
    /\ UNCHANGED <<pcA, loaded, required, appId, appName, exit_status, exitCode>>
    /\ UNCHANGED <<envVars, bVars>>

\* The user closes window i: it is destroyed and leaves the application.
UserCloseA ==
    /\ pcA = "running"
    /\ \E i \in 1..Len(windows) :
         /\ windows[i].visible
         /\ windows' = RemoveAt(windows, i)
    /\ UNCHANGED <<pcA, loaded, required, appId, appName, activations,
                   lastActivate, exit_status, exitCode, failure>>
    /\ UNCHANGED <<envVars, bVars>>

\* The value run() returns once the main loop has ended.
RunStatus == 0

\* run() (line 47) returns: the main loop ends when the application has been
\* activated and holds no window.
RunReturns ==
    /\ pcA = "running"
    /\ activations > 0
    /\ windows = <<>>
    /\ exit_status' = RunStatus
    /\ pcA' = "l48"
    /\ UNCHANGED <<loaded, required, appId, appName, windows, activations,
                   lastActivate, exitCode, failure>>
    /\ UNCHANGED <<envVars, bVars>>

\* Mutant: sys.exit() is called without the status.
SysExitCode_Zero(status) == 0

\* The process exit code sys.exit(exit_status) (line 48) gives.
SysExitCode(status) == status

\* line 48
SysExit ==
    /\ pcA = "l48"
    /\ exitCode' = SysExitCode(exit_status)
    /\ pcA' = "exited"
    /\ UNCHANGED <<loaded, required, appId, appName, windows, activations,
                   lastActivate, exit_status, failure>>
    /\ UNCHANGED <<envVars, bVars>>

InitA ==
    /\ pcA = "l28"
    /\ loaded = NoVersion
    /\ required = NoVersion
    /\ appId = "none"
    /\ appName = "none"
    /\ windows = <<>>
    /\ activations = 0
    /\ lastActivate = "none"
    /\ exit_status = NoStatus
    /\ exitCode = NoStatus
    /\ failure = "none"

\* ================================================================ Shell B

NoButton == [exists |-> FALSE, label |-> "none", parent |-> "none",
             down |-> FALSE, connections |-> {}]

NoDashboard == [exists |-> FALSE, title |-> "none", central |-> "none",
                visible |-> FALSE, closed |-> FALSE]

\* Mutant: Dashboard.__init__ catches the exception and returns normally.
RaiseB_Swallowed(err) ==
    /\ pcB' = "done"
    /\ bError' = err

\* An exception raised by a statement of Dashboard.__init__ propagates to
\* the caller: no statement after it runs.
RaiseB(err) ==
    /\ pcB' = "raised"
    /\ bError' = err

\* super().__init__() (line 6): the QMainWindow exists, hidden, untitled.
QMainWindow__init__ ==
    /\ pcB = "l6"
    /\ \E ok \in BOOLEAN :
         IF ok
         THEN /\ dash' = [NoDashboard EXCEPT !.exists = TRUE]
              /\ pcB' = "l8"
              /\ UNCHANGED bError
         ELSE /\ RaiseB("RuntimeError")
              /\ UNCHANGED dash
    /\ UNCHANGED button
    /\ UNCHANGED <<envVars, aVars>>

\* self.setWindowTitle("RestEasy") (line 8)
setWindowTitle(w, title) == [w EXCEPT !.title = title]

Dashboard_l8 ==
    /\ pcB = "l8"
    /\ dash' = setWindowTitle(dash, WINDOW_TITLE_B)
    /\ pcB' = "l10"
    /\ UNCHANGED <<button, bError>>
    /\ UNCHANGED <<envVars, aVars>>

\* Mutant: the button is constructed without its text.
QPushButton_NoLabel(label) == [NoButton EXCEPT !.exists = TRUE]

\* QPushButton("RestEasy (WIP)") (line 10): a parentless, hidden button.
QPushButton(label) == [NoButton EXCEPT !.exists = TRUE, !.label = label]

Dashboard_l10 ==
    /\ pcB = "l10"
    /\ \E ok \in BOOLEAN :
         IF ok
         THEN /\ button' = QPushButton(BUTTON_LABEL)
              /\ pcB' = "l11"
              /\ UNCHANGED bError
         ELSE /\ RaiseB("RuntimeError")
              /\ UNCHANGED button
    /\ UNCHANGED dash
    /\ UNCHANGED <<envVars, aVars>>

\* Mutant: the slot is connected to clicked instead of pressed.
connect_Clicked(b, signal, slot) ==
    [b EXCEPT !.connections = @ \cup {[signal |-> "clicked", slot |-> slot]}]

\* button.pressed.connect(self.close) (line 11)
connect(b, signal, slot) ==
    [b EXCEPT !.connections = @ \cup {[signal |-> signal, slot |-> slot]}]

\* Mutant: line 11 is missing, the button is never connected.
Dashboard_l11_Skip ==
    /\ pcB = "l11"
    /\ pcB' = "l13"
    /\ UNCHANGED <<dash, button, bError>>
    /\ UNCHANGED <<envVars, aVars>>

Dashboard_l11 ==
    /\ pcB = "l11"
    /\ button' = connect(button, "pressed", "close")
    /\ pcB' = "l13"
    /\ UNCHANGED <<dash, bError>>
    /\ UNCHANGED <<envVars, aVars>>

\* self.setCentralWidget(button) (line 13): the window takes the button as
\* its central widget and becomes its parent.
Dashboard_l13 ==
    /\ pcB = "l13"
    /\ dash' = [dash EXCEPT !.central = "button"]
    /\ button' = [button EXCEPT !.parent = "dash"]
    /\ pcB' = "l14"
    /\ UNCHANGED bError
    /\ UNCHANGED <<envVars, aVars>>

\* Mutant: line 14 is missing, the caller has to show the window.
show_Noop(w) == w

\* self.show() (line 14)
show(w) == [w EXCEPT !.visible = TRUE]

Dashboard_l14 ==
    /\ pcB = "l14"
    /\ \E ok \in BOOLEAN :
         IF ok
         THEN /\ dash' = show(dash)
              /\ pcB' = "done"
              /\ UNCHANGED bError
         ELSE /\ RaiseB("RuntimeError")
              /\ UNCHANGED dash
    /\ UNCHANGED button
    /\ UNCHANGED <<envVars, aVars>>

\* QWidget.close(), the slot line 11 connects: the window is hidden.
close(w) == [w EXCEPT !.visible = FALSE, !.closed = TRUE]

\* The slots a signal of the button runs, applied to the window.
Emit(b, signal, w) ==
    IF [signal |-> signal, slot |-> "close"] \in b.connections
    THEN close(w) ELSE w

\* The user presses the button of the visible window (mouse button down, or
\* the activation key down): the button emits pressed.
ButtonPress ==
    /\ pcB = "done"
    /\ dash.visible
    /\ dash.central = "button"
    /\ ~button.down
    /\ button' = [button EXCEPT !.down = TRUE]
    /\ dash' = Emit(button, "pressed", dash)
    /\ UNCHANGED <<pcB, bError>>
    /\ UNCHANGED <<envVars, aVars>>

\* The user lets go of the button: it emits released, then clicked.
ButtonRelease ==
    /\ pcB = "done"
    /\ button.down
    /\ button' = [button EXCEPT !.down = FALSE]
    /\ dash' = Emit(button, "clicked", Emit(button, "released", dash))
    /\ UNCHANGED <<pcB, bError>>
    /\ UNCHANGED <<envVars, aVars>>

\* The user closes the window with the window manager's close control.
UserCloseB ==
    /\ pcB = "done"
    /\ dash.visible
    /\ dash' = close(dash)
    /\ UNCHANGED <<pcB, button, bError>>
    /\ UNCHANGED <<envVars, aVars>>

InitB ==
    /\ pcB = "l6"
    /\ dash = NoDashboard
    /\ button = NoButton
    /\ bError = "none"

\* ============================================================ specification

Init ==
    /\ installed \in SUBSET GtkVersions
    /\ display \in BOOLEAN
    /\ busOk \in BOOLEAN
    /\ InitA
    /\ InitB

Next ==
    \/ ImportGi
    \/ RequireVersion
    \/ MyApplication__init__
    \/ RunStartup
    \/ Activate
    \/ UserCloseA
    \/ RunReturns
    \/ SysExit
    \/ QMainWindow__init__
    \/ Dashboard_l8
    \/ Dashboard_l10
    \/ Dashboard_l11
    \/ Dashboard_l13
    \/ Dashboard_l14
    \/ ButtonPress
    \/ ButtonRelease
    \/ UserCloseB

Spec == Init /\ [][Next]_vars

\* The main loop ends once nothing holds the application, and line 48
\* follows line 47.
LiveSpec == Spec /\ WF_vars(RunReturns) /\ WF_vars(SysExit)

\* ================================================================== claims

\* Visible windows of shell A, and of shell B (top-level widgets are the
\* widgets without a parent).
ShownA == Cardinality({i \in 1..Len(windows) : windows[i].visible})

TopLevelB ==
    (IF dash.exists THEN {"dash"} ELSE {})
    \cup (IF button.exists /\ button.parent = "none" THEN {"button"} ELSE {})

ShownB == IF dash.visible THEN 1 ELSE 0

\* The first activate has just run on the fresh application object and
\* do_activate returned normally.
FirstActivateStep ==
    activations = 0 /\ activations' = 1 /\ lastActivate' = "ok"

\* C1 as stated: right after the first activate() exactly one window exists,
\* it is owned by the application and its title is "RestEasy".
C1_Original ==
    [][FirstActivateStep =>
         /\ Len(windows') = 1
         /\ windows'[1].application = "self"
         /\ windows'[1].title = "RestEasy"]_vars

\* C1 amended: right after the first activate() exactly one window exists,
\* it is owned by the application and its title is "Hello, RestEasy!"
\* ("RestEasy" is the application name, not the window title).
C1_Amended ==
    [][FirstActivateStep =>
         /\ Len(windows') = 1
         /\ windows'[1].application = "self"
         /\ windows'[1].title = "Hello, RestEasy!"
         /\ appName' = "RestEasy"]_vars

C1_Witness ==
    /\ activations = 1
    /\ lastActivate = "ok"
    /\ Len(windows) = 1
    /\ windows[1].title = "Hello, RestEasy!"

\* The user presses the button of the open Dashboard window.
ButtonPressStep ==
    pcB = "done" /\ dash.visible /\ ~button.down /\ button'.down

\* C2: whenever the Dashboard window is open, pressing its button closes the
\* window in that step without an exception, and a closed window stays
\* closed.
C2_PressCloses ==
    [][/\ ButtonPressStep =>
            (~dash'.visible /\ dash'.closed /\ pcB' = "done" /\ bError' = "none")
       /\ dash.closed => (dash'.closed /\ ~dash'.visible)]_vars

C2_Witness == pcB = "done" /\ button.down /\ dash.closed /\ ~dash.visible

\* C3 as stated: in every reachable state each shell shows at most one
\* window, however often activate is delivered.
C3_AtMostOneWindow == ShownA <= 1 /\ ShownB <= 1

\* C4: run has not returned and the process has not left the main loop
\* while the application holds a window; once the activated application
\* holds no window run returns and the process exits; the exit code is the
\* status run returned, and 0 when no toolkit step failed.
C4_RunBlocksThenExits ==
    /\ [](pcA = "l48" => windows = <<>>)
    /\ []((pcA = "exited" /\ exit_status # NoStatus) =>
             (windows = <<>> /\ exitCode = exit_status))
    /\ []((pcA = "exited" /\ failure = "none") => exitCode = 0)
    /\ (pcA = "running" /\ activations > 0 /\ windows = <<>>)
          ~> (pcA = "exited" \/ windows # <<>>)

C4_Witness ==
    /\ pcA = "exited"
    /\ lastActivate = "ok"
    /\ failure = "none"
    /\ exit_status = 0
    /\ exitCode = 0

\* C5: once Dashboard's construction has completed there is exactly one
\* window, titled "RestEasy", whose only control is a button labelled
\* "RestEasy (WIP)", in every later state too.
C5_OneWindowOneButton ==
    pcB = "done" =>
        /\ TopLevelB = {"dash"}
        /\ dash.title = "RestEasy"
        /\ dash.central = "button"
        /\ button.exists
        /\ button.parent = "dash"
        /\ button.label = "RestEasy (WIP)"

C5_Witness ==
    pcB = "done" /\ dash.closed /\ dash.title = "RestEasy" /\ ~button.down

\* C6: the Dashboard window is visible when construction has completed and
\* stays visible as long as no close (button press or user close) happened.
C6_VisibleUntilClose == (pcB = "done" /\ ~dash.closed) => dash.visible

C6_Witness == pcB = "done" /\ ~dash.closed /\ dash.visible

\* Module load and MyApplication() raised.
LoadRaised == failure \in {"ImportError", "ValueError"}

\* C7 as stated: with Gtk 4.0 installed, loading the module and constructing
\* the application object does not raise, and the object's application id
\* is "com.resteasy.RestEasy" from then on.
C7_LoadsAndHasId ==
    /\ RequiredGtk \in installed => ~LoadRaised
    /\ pcA \in {"l47", "running", "l48"} => appId = "com.resteasy.RestEasy"

\* C8 as stated: the window activate() displays has a title and a static
\* text child.
C8_Original ==
    \A i \in 1..Len(windows) :
        windows[i].visible =>
            (windows[i].title # "" /\ windows[i].child # "none")

\* C8 amended: the window activate() displays has the title
\* "Hello, RestEasy!" and no child: its only static text is the title.
C8_Amended ==
    \A i \in 1..Len(windows) :
        /\ windows[i].title = "Hello, RestEasy!"
        /\ windows[i].child = "none"

C8_Witness ==
    /\ Len(windows) >= 1
    /\ windows[1].visible
    /\ windows[1].child = "none"

\* A failure before the main loop: module load, or registration and startup
\* inside run.
EarlyFailure == failure \in {"ImportError", "ValueError", "register", "startup"}

\* C9 as stated: after a failure of any toolkit step shell A is not running
\* its main loop, shows no window and exits with a non-zero status, and a
\* failed Dashboard construction has raised and shows nothing.
C9_Original ==
    /\ failure # "none" =>
          /\ pcA \in {"l48", "exited"}
          /\ ShownA = 0
          /\ pcA = "exited" => exitCode >= 1
    /\ bError # "none" => (pcB = "raised" /\ ~dash.visible)

\* C9 amended: neither shell handles a failure.  A failure of module load,
\* registration or startup ends the shell A process with a non-zero status,
\* no activation delivered and no window created; an exception raised inside
\* do_activate goes to the toolkit's dispatcher, not to run: that activation
\* shows no window, the main loop goes on and the exit status is the
\* toolkit's; a failed Dashboard construction has raised to its caller with
\* the window not shown.
C9_Amended ==
    /\ [](EarlyFailure =>
            /\ pcA \in {"l48", "exited"}
            /\ activations = 0
            /\ windows = <<>>
            /\ pcA = "l48" => exit_status >= 1
            /\ pcA = "exited" => exitCode >= 1)
    /\ [](bError # "none" => (pcB = "raised" /\ ~dash.visible))
    /\ [][(activations' = activations + 1 /\ lastActivate' # "ok") =>
            (ShownA' = ShownA /\ pcA' = "running" /\ exitCode' = NoStatus)]_vars

C9_Witness ==
    /\ failure = "activate"
    /\ pcA = "exited"
    /\ exitCode = 0
    /\ bError # "none"

\* C10: whenever the Dashboard window is visible its button is installed as
\* the central widget and connected, so that a press closes the window.
C10_VisibleImpliesWired ==
    dash.visible =>
        /\ dash.central = "button"
        /\ button.exists
        /\ [signal |-> "pressed", slot |-> "close"] \in button.connections
        /\ ~Emit(button, "pressed", dash).visible

C10_Witness == dash.visible /\ pcB = "done" /\ button.connections # {}

====
